---- MODULE Spec2Model ----
(***************************************************************************)
(* A model of rutils' pooled Redis connection manager                      *)
(* (src/src/redis_manager.rs) and of its tracing sink                      *)
(* (src/src/redis_tracing.rs).                                             *)
(*                                                                         *)
(* Caller tasks run the manager's operations statement by statement.  A    *)
(* task lives on one OS thread; tasks that share a thread are scheduled    *)
(* cooperatively: a task keeps its thread until it suspends at an .await   *)
(* that is not ready (a network round trip) or returns to its caller.      *)
(* std::sync::Mutex::lock blocks the calling THREAD.                       *)
(***************************************************************************)
EXTENDS Integers, Sequences, FiniteSets, TLC

\* ---------------------------------------------------------------- bounds
\* Messages the store accepts in one run.
MaxPublishes == 2
\* Caller tasks.
NTasks == 2
\* OS threads the tasks are spread over.
NThreads == 2
\* Sessions the store hands out before it refuses further connections.
MaxSessions == 2
\* redis_manager.rs:10 has 100; scaled down so that a full pool is reached.
MAX_POOL_SIZE == 1

Tasks == 1..NTasks
Threads == 1..NThreads
Sessions == 1..MaxSessions
Kinds == {"sync", "async", "pubsub"}
Channels == {"c", "d"}
\* What publish(channel, message: &str) can send.
Payloads == {"x", "y"}
\* A payload of another client of the store that is not UTF-8.
Binary == "\\xff"

VARIABLES
    pool,     \* Kinds -> Seq(Sessions): the three VecDeque pools
    lock,     \* Kinds -> 0 | task: owner of each pool's Mutex
    kind,     \* Sessions -> Kinds | "none": the variant a session was created as
    closed,   \* sessions whose connection was dropped
    pc,       \* Tasks -> the statement the task is at
    thr,      \* Tasks -> Threads
    op,       \* Tasks -> the public operation in progress
    held,     \* Tasks -> what the caller owns between operations
    conn,     \* Tasks -> the operation's local `conn` (0: none)
    res,      \* Tasks -> result of the task's last operation
    job,      \* Sessions -> state of the task spawned by AsyncConnectionGuard::drop
    jobThr,   \* Sessions -> thread that runs that task
    handed,   \* Sessions -> times handed to a return path since last checkout
    target,   \* Sessions -> pool whose return path last received the session
    exitBy,   \* Sessions -> how the scope of the last guard ended
    chan,       \* Tasks -> the channel argument of subscribe_and_wait_for_response
    timer,      \* Tasks -> the timeout's timer has fired
    resp,       \* Tasks -> the local `response` of subscribe_and_wait_for_response
    subscribed, \* Sessions -> channels the store delivers to the session
    inbox,      \* Sessions -> messages the store has pushed, not yet read
    ended,      \* Sessions -> the store has closed the subscription stream
    nPublished, \* messages the store has accepted
    used,       \* Tasks -> the session the call in progress obtained
    first,      \* Tasks -> first payload published to the call's channel
                \*          between its subscribe step and its deadline
    backlog,    \* Tasks -> channel of the oldest message that was already
                \*          waiting on the session when the call's subscribe
                \*          step completed ("none": nothing was waiting)
    clock,      \* Utc::now(), in half milliseconds
    ptask,      \* the tasks spawned by RedisLogger::log, in spawn order
    store,      \* the sorted set traces:{app_name}: (member, score) pairs
    permit,     \* the Notify holds a stored permit
    flushing, \* a flush() is waiting in notified()
    flushes,  \* flush() calls that have returned
    atCall,   \* events raised when flush() was first called, -1 before
    viewer    \* the LogViewer call in progress and what it has printed

poolVars == <<pool, lock, kind, closed, pc, held, conn, job, jobThr,
              handed, target, exitBy>>
rvVars == <<chan, timer, resp, subscribed, inbox, ended, nPublished,
            used, first, backlog>>
trVars == <<clock, ptask, store, permit, flushing, flushes, atCall, viewer>>
vars == <<poolVars, thr, op, res, rvVars, trVars>>

\* ------------------------------------------------------------- helpers
\* g: the guard or raw connection a caller owns, s: its session, by: how the
\* checkout got it ("pop" from the pool, "new" from the store).
NoHold == [g |-> "none", s |-> 0, by |-> "none"]
NoRes == [tag |-> "none", val |-> "none"]
Ok(v) == [tag |-> "Ok", val |-> v]
Err(e) == [tag |-> "Err", val |-> e]

\* A RedisError: its ErrorKind and its description.
RedisError(k, d) == [kind |-> k, description |-> d]
\* The errors the redis client itself reports: a connection that cannot be
\* made, a command the store fails, a payload that is not a String.
ConnectFailed == RedisError("IoError", "connection refused")
StoreError == RedisError("ResponseError", "command failed")
Decode == RedisError("TypeError", "invalid utf-8")
\* redis_manager.rs:150-153 and 154-157.
NoMessage == RedisError("IoError", "No message received")
Timeout == RedisError("IoError", "Timeout waiting for response")

\* Statements at which a task does not occupy its thread: between operations,
\* suspended at a pending .await, or gone.
Suspended == {"idle", "gac_connect", "gan_connect", "panicked",
              "pb_connect", "pb_publish", "pb_done",
              "gp_connect", "sw_subscribe", "sw_wait", "sw_unsubscribe", "sw_done",
              "fd_connect", "fd_cmd", "fd_done"}

\* The thread of t is free for t to (continue to) run.
CanRun(t) ==
    /\ \A u \in Tasks \ {t} : thr[u] = thr[t] => pc[u] \in Suspended
    /\ \A s \in Sessions : job[s] \in {"lock", "deadlocked"} => jobThr[s] # thr[t]

\* The thread th is free for a spawned task to be polled.
ThreadFree(th) ==
    /\ \A u \in Tasks : thr[u] = th => pc[u] \in Suspended
    /\ \A s \in Sessions : job[s] \in {"lock", "deadlocked"} => jobThr[s] # th

Fresh == {s \in Sessions : kind[s] = "none"}
NewSession == CHOOSE s \in Fresh : \A u \in Fresh : s <= u

\* VecDeque::pop_front
pop_frontKeeps(q) == q
pop_front(q) == Tail(q)
\* VecDeque::push_back
push_back(q, s) == Append(q, s)
\* `pool.len() < MAX_POOL_SIZE`
HasRoomOffByOne(q) == Len(q) <= MAX_POOL_SIZE
HasRoom(q) == Len(q) < MAX_POOL_SIZE

\* A return that closes the session although the pool has room.
ReturnToDiscards(k, s) ==
    /\ pool' = pool
    /\ closed' = closed \cup {s}

\* The body of return_{sync,async,pubsub}_connection under the lock.
ReturnTo(k, s) ==
    IF HasRoom(pool[k])
    THEN /\ pool' = [pool EXCEPT ![k] = push_back(@, s)]
         /\ closed' = closed
    ELSE /\ pool' = pool
         /\ closed' = closed \cup {s}

\* No LogViewer call is running.
Idle == [pc |-> "idle", conn |-> 0, sel |-> <<>>, out |-> <<>>, res |-> NoRes]

Init ==
    /\ pool = [k \in Kinds |-> <<>>]
    /\ lock = [k \in Kinds |-> 0]
    /\ kind = [s \in Sessions |-> "none"]
    /\ closed = {}
    /\ pc = [t \in Tasks |-> "idle"]
    /\ thr \in {f \in [Tasks -> Threads] : f[1] = 1}
    /\ op = [t \in Tasks |-> "none"]
    /\ held = [t \in Tasks |-> NoHold]
    /\ conn = [t \in Tasks |-> 0]
    /\ res = [t \in Tasks |-> NoRes]
    /\ job = [s \in Sessions |-> "none"]
    /\ jobThr = [s \in Sessions |-> 1]
    /\ handed = [s \in Sessions |-> 0]
    /\ target = [s \in Sessions |-> "none"]
    /\ exitBy = [s \in Sessions |-> "none"]
    /\ chan = [t \in Tasks |-> "none"]
    /\ timer = [t \in Tasks |-> FALSE]
    /\ resp = [t \in Tasks |-> NoRes]
    /\ subscribed = [s \in Sessions |-> {}]
    /\ inbox = [s \in Sessions |-> <<>>]
    /\ ended = [s \in Sessions |-> FALSE]
    /\ nPublished = 0
    /\ used = [t \in Tasks |-> 0]
    /\ first = [t \in Tasks |-> "none"]
    /\ backlog = [t \in Tasks |-> "none"]
    /\ clock = 0
    /\ ptask = <<>>
    /\ store = {}
    /\ permit = FALSE
    /\ flushing = FALSE
    /\ flushes = 0
    /\ atCall = -1
    /\ viewer = Idle

\* ------------------------------------------------ std::sync::Mutex::lock
\* The pool whose Mutex a statement locks.
LockOf(p) ==
    CASE p \in {"gsc_lock", "gsn_lock", "rs_lock"} -> "sync"
      [] p \in {"gac_lock", "gan_lock", "ra_lock"} -> "async"
      [] OTHER -> "pubsub"

LockPCs == {"gsc_lock", "gsn_lock", "rs_lock", "gac_lock", "gan_lock", "ra_lock"}

\* A checkout hands session s out: it starts a new tenure.
Tenure(s) ==
    /\ handed' = [handed EXCEPT ![s] = 0]
    /\ target' = [target EXCEPT ![s] = "none"]
    /\ exitBy' = [exitBy EXCEPT ![s] = "none"]

\* A return path of pool k receives session s.
HandTo(k, s) ==
    /\ handed' = [handed EXCEPT ![s] = @ + 1]
    /\ target' = [target EXCEPT ![s] = k]

\* Creating a session of kind k succeeds.
Connected(k, s) ==
    /\ Fresh # {}
    /\ s = NewSession
    /\ kind' = [kind EXCEPT ![s] = k]

\* What no pool operation touches.
PoolFrame == UNCHANGED <<thr, op, res, rvVars, trVars>>

\* A function is entered by an idle caller that owns h: it runs on to its
\* lock() and through the critical section `cs` if the Mutex of pool k is
\* free, and blocks its thread in lock() (statement p) otherwise.
Enter(t, k, p, cs) ==
    /\ pc[t] = "idle" /\ CanRun(t)
    /\ IF lock[k] = 0
       THEN cs
       ELSE /\ pc' = [pc EXCEPT ![t] = p]
            /\ UNCHANGED <<pool, lock, kind, closed, held, conn, job, jobThr, handed, target, exitBy>>

\* lock() returns to a blocked caller once the Mutex is free.
Acquire(t, k, p, cs) ==
    /\ pc[t] = p /\ lock[k] = 0
    /\ cs

\* --------------------------------------- get_sync_conn / get_async_conn
\* lines 36-41 and 52-57: lock, pop_front, Some(conn) => Ok(guard).  `pool`
\* (the MutexGuard) lives to the end of the function, so the else branch
\* (lines 43 and 59) runs with the Mutex held.
GuardedPop(t, k, g, pconnect) ==
    /\ IF pool[k] # <<>>
       THEN /\ pool' = [pool EXCEPT ![k] = pop_front(@)]
            /\ held' = [held EXCEPT ![t] = [g |-> g, s |-> Head(pool[k]),
                                            by |-> "pop"]]
            /\ Tenure(Head(pool[k]))
            /\ pc' = [pc EXCEPT ![t] = "idle"]
            /\ lock' = lock
       ELSE /\ lock' = [lock EXCEPT ![k] = t]
            /\ pc' = [pc EXCEPT ![t] = pconnect]
            /\ UNCHANGED <<pool, held, handed, target, exitBy>>
    /\ UNCHANGED <<kind, closed, conn, job, jobThr>>

\* The connection attempt answers: Ok(guard) or `?` returns the error; the
\* MutexGuard is dropped on the way out.
GuardedConnect(t, k, g) ==
    /\ \/ \E s \in Sessions :
            /\ Connected(k, s)
            /\ held' = [held EXCEPT ![t] = [g |-> g, s |-> s, by |-> "new"]]
       \/ UNCHANGED <<kind, held>>
    /\ lock' = [lock EXCEPT ![k] = 0]
    /\ pc' = [pc EXCEPT ![t] = "idle"]
    /\ UNCHANGED <<pool, closed, conn, job, jobThr, handed, target, exitBy>>

get_sync_conn_call(t) ==
    /\ held[t] = NoHold
    /\ Enter(t, "sync", "gsc_lock", GuardedPop(t, "sync", "sguard", "gsc_connect"))
    /\ PoolFrame

get_sync_conn_lock(t) ==
    /\ Acquire(t, "sync", "gsc_lock", GuardedPop(t, "sync", "sguard", "gsc_connect"))
    /\ PoolFrame

\* line 43: self.client.get_connection()? blocks the thread.
get_sync_conn_connect(t) ==
    /\ pc[t] = "gsc_connect"
    /\ GuardedConnect(t, "sync", "sguard")
    /\ PoolFrame

get_async_conn_call(t) ==
    /\ held[t] = NoHold
    /\ Enter(t, "async", "gac_lock", GuardedPop(t, "async", "aguard", "gac_connect"))
    /\ PoolFrame

get_async_conn_lock(t) ==
    /\ Acquire(t, "async", "gac_lock", GuardedPop(t, "async", "aguard", "gac_connect"))
    /\ PoolFrame

\* line 59: get_multiplexed_async_connection().await? answers and the
\* suspended task is polled again.
get_async_conn_connect(t) ==
    /\ pc[t] = "gac_connect" /\ CanRun(t)
    /\ GuardedConnect(t, "async", "aguard")
    /\ PoolFrame

\* ------------------------------- get_sync_connection / get_async_connection
\* The checkout returns Ok(s) to whoever called it.
Got(t, s, g, by) ==
    /\ held' = [held EXCEPT ![t] = [g |-> g, s |-> s, by |-> by]]
    /\ pc' = [pc EXCEPT ![t] = "idle"]
    /\ conn' = conn

\* A checkout that goes back to its pop for another attempt when the
\* connection cannot be made.
NotGotRetried(t) ==
    /\ pc' = [pc EXCEPT ![t] = IF pc[t] = "gsn_connect" THEN "gsn_lock"
                                                        ELSE "gan_lock"]
    /\ UNCHANGED <<held, conn>>

\* The checkout returns the connection error to whoever called it.
NotGot(t) ==
    /\ pc' = [pc EXCEPT ![t] = "idle"]
    /\ UNCHANGED <<held, conn>>

\* A checkout that asks the store for a new session whatever the pool holds.
RawPopConnects(t, k, g, pconnect) ==
    /\ pc' = [pc EXCEPT ![t] = pconnect]
    /\ UNCHANGED <<pool, held, conn, handed, target, exitBy>>
    /\ UNCHANGED <<lock, kind, closed, job, jobThr>>

\* lines 69-75 and 82-88: the block scopes the MutexGuard to the pop.
RawPop(t, k, g, pconnect) ==
    /\ IF pool[k] # <<>>
       THEN /\ pool' = [pool EXCEPT ![k] = pop_front(@)]
            /\ Tenure(Head(pool[k]))
            /\ Got(t, Head(pool[k]), g, "pop")
       ELSE /\ pc' = [pc EXCEPT ![t] = pconnect]
            /\ UNCHANGED <<pool, held, conn, handed, target, exitBy>>
    /\ UNCHANGED <<lock, kind, closed, job, jobThr>>

\* lines 77 and 90: the connection attempt answers.
RawConnect(t, k, g) ==
    /\ \/ \E s \in Sessions : Connected(k, s) /\ Got(t, s, g, "new")
       \/ NotGot(t) /\ kind' = kind
    /\ UNCHANGED <<pool, lock, closed, job, jobThr, handed, target, exitBy>>

get_sync_connection_call(t) ==
    /\ held[t] = NoHold
    /\ Enter(t, "sync", "gsn_lock", RawPop(t, "sync", "sraw", "gsn_connect"))
    /\ PoolFrame

get_sync_connection_lock(t) ==
    /\ Acquire(t, "sync", "gsn_lock", RawPop(t, "sync", "sraw", "gsn_connect"))
    /\ PoolFrame

get_sync_connection_connect(t) ==
    /\ pc[t] = "gsn_connect"
    /\ RawConnect(t, "sync", "sraw")
    /\ PoolFrame

get_async_connection_call(t) ==
    /\ held[t] = NoHold
    /\ Enter(t, "async", "gan_lock", RawPop(t, "async", "araw", "gan_connect"))
    /\ PoolFrame

get_async_connection_lock(t) ==
    /\ Acquire(t, "async", "gan_lock", RawPop(t, "async", "araw", "gan_connect"))
    /\ PoolFrame

get_async_connection_connect(t) ==
    /\ pc[t] = "gan_connect" /\ CanRun(t)
    /\ RawConnect(t, "async", "araw")
    /\ PoolFrame

\* ------------------------- return_sync_connection / return_async_connection
\* lines 96-99 and 103-106 for the session s the caller passes in.
Return(t, k, s) ==
    /\ ReturnTo(k, s)
    /\ pc' = [pc EXCEPT ![t] = "idle"]
    /\ held' = [held EXCEPT ![t] = NoHold]
    /\ conn' = [conn EXCEPT ![t] = 0]
    /\ exitBy' = [exitBy EXCEPT ![s] = "none"]
    /\ UNCHANGED <<lock, kind, job, jobThr>>

\* The caller is blocked in the return path's lock(): the session has left
\* the caller's hands and is the function's argument `conn`.
Blocked(t, p, s) ==
    /\ pc' = [pc EXCEPT ![t] = p]
    /\ held' = [held EXCEPT ![t] = NoHold]
    /\ conn' = [conn EXCEPT ![t] = s]
    /\ UNCHANGED <<pool, lock, kind, closed, job, jobThr>>

return_sync_connection_call(t) ==
    /\ pc[t] = "idle" /\ held[t].g = "sraw" /\ CanRun(t)
    /\ HandTo("sync", held[t].s)
    /\ IF lock["sync"] = 0
       THEN Return(t, "sync", held[t].s)
       ELSE Blocked(t, "rs_lock", held[t].s) /\ exitBy' = exitBy
    /\ PoolFrame

return_sync_connection_lock(t) ==
    /\ pc[t] = "rs_lock" /\ lock["sync"] = 0
    /\ Return(t, "sync", conn[t])
    /\ UNCHANGED <<handed, target>>
    /\ PoolFrame

return_async_connection_call(t) ==
    /\ pc[t] = "idle" /\ held[t].g = "araw" /\ CanRun(t)
    /\ HandTo("async", held[t].s)
    /\ IF lock["async"] = 0
       THEN Return(t, "async", held[t].s)
       ELSE Blocked(t, "ra_lock", held[t].s) /\ exitBy' = exitBy
    /\ PoolFrame

return_async_connection_lock(t) ==
    /\ pc[t] = "ra_lock" /\ lock["async"] = 0
    /\ Return(t, "async", conn[t])
    /\ UNCHANGED <<handed, target>>
    /\ PoolFrame

\* A caller that owns a raw session lets it go out of scope (line 67's TODO).
drop_connection(t) ==
    /\ pc[t] = "idle" /\ held[t].g \in {"sraw", "araw"} /\ CanRun(t)
    /\ closed' = closed \cup {held[t].s}
    /\ held' = [held EXCEPT ![t] = NoHold]
    /\ UNCHANGED <<pool, lock, kind, pc, conn, job, jobThr, handed, target, exitBy>>
    /\ PoolFrame

\* ----------------------------------------------------------- the guards
\* The pool whose return path a guard's Drop calls (lines 200 and 229).
DropTargetSwapped(g) == IF g = "sguard" THEN "async" ELSE "sync"
DropTarget(g) == IF g = "sguard" THEN "sync" ELSE "async"

\* What `self.connection.take()` yields (lines 198 and 226): the session of
\* Some(conn), 0 for None.
take(h) == h.s

\* impl Drop for SyncConnectionGuard: the scope ends (normally or by an
\* error), the connection is taken and return_sync_connection is called.
drop_SyncConnectionGuard(t) ==
    /\ pc[t] = "idle" /\ held[t].g = "sguard" /\ CanRun(t)
    /\ IF take(held[t]) # 0
       THEN /\ HandTo(DropTarget("sguard"), take(held[t]))
            /\ IF lock[DropTarget("sguard")] = 0
               THEN Return(t, DropTarget("sguard"), take(held[t]))
               ELSE /\ Blocked(t, IF DropTarget("sguard") = "sync"
                                  THEN "rs_lock" ELSE "ra_lock", take(held[t]))
                    /\ \E how \in {"ok", "err"} :
                          exitBy' = [exitBy EXCEPT ![held[t].s] = how]
       ELSE /\ closed' = closed \cup {held[t].s}
            /\ held' = [held EXCEPT ![t] = NoHold]
            /\ UNCHANGED <<pool, lock, kind, pc, conn, job, jobThr, handed, target, exitBy>>
    /\ PoolFrame

\* impl Drop for AsyncConnectionGuard: the connection is taken and moved into
\* a spawned task whose whole body is the call of return_async_connection:
\* the move is the hand-over to the async return path.
drop_AsyncConnectionGuard(t) ==
    /\ pc[t] = "idle" /\ held[t].g = "aguard" /\ CanRun(t)
    /\ held' = [held EXCEPT ![t] = NoHold]
    /\ IF take(held[t]) # 0
       THEN /\ job' = [job EXCEPT ![take(held[t])] = "spawned"]
            /\ \E th \in Threads : jobThr' = [jobThr EXCEPT ![take(held[t])] = th]
            /\ HandTo(DropTarget("aguard"), take(held[t]))
            /\ \E how \in {"ok", "err"} :
                  exitBy' = [exitBy EXCEPT ![held[t].s] = how]
            /\ closed' = closed
       ELSE /\ closed' = closed \cup {held[t].s}
            /\ UNCHANGED <<job, jobThr, handed, target, exitBy>>
    /\ UNCHANGED <<pool, lock, kind, pc, conn>>
    /\ PoolFrame

\* lines 103-106, run by the spawned task
SpawnedReturn(s) ==
    /\ ReturnTo("async", s)
    /\ job' = [job EXCEPT ![s] = "none"]
    /\ jobThr' = [jobThr EXCEPT ![s] = 1]
    /\ exitBy' = [exitBy EXCEPT ![s] = "none"]
    /\ UNCHANGED <<lock, kind, pc, held, conn, handed, target>>

\* The spawned task is polled: it runs return_async_connection, or blocks
\* its thread in lock().
spawned_return_poll(s) ==
    /\ job[s] = "spawned" /\ ThreadFree(jobThr[s])
    /\ IF lock["async"] = 0
       THEN SpawnedReturn(s)
       ELSE /\ job' = [job EXCEPT ![s] = "lock"]
            /\ UNCHANGED <<pool, lock, kind, closed, pc, held, conn, jobThr, handed, target, exitBy>>
    /\ PoolFrame

spawned_return_lock(s) ==
    /\ job[s] = "lock" /\ lock["async"] = 0
    /\ SpawnedReturn(s)
    /\ PoolFrame

\* Mutex::lock called on a thread one of whose own suspended tasks holds the
\* Mutex: the holder cannot run before lock() returns.  std leaves the outcome
\* open: lock() never returns, or it panics (unwinding drops `conn`).
lock_on_own_thread(t) ==
    /\ pc[t] \in LockPCs
    /\ lock[LockOf(pc[t])] # 0
    /\ thr[lock[LockOf(pc[t])]] = thr[t]
    /\ \/ /\ pc' = [pc EXCEPT ![t] = "deadlocked"]
          /\ UNCHANGED <<closed, conn>>
       \/ /\ pc' = [pc EXCEPT ![t] = "panicked"]
          /\ closed' = IF conn[t] # 0 THEN closed \cup {conn[t]} ELSE closed
          /\ conn' = [conn EXCEPT ![t] = 0]
    /\ UNCHANGED <<pool, lock, kind, held, job, jobThr, handed, target, exitBy>>
    /\ PoolFrame

spawned_lock_on_own_thread(s) ==
    /\ job[s] = "lock"
    /\ lock["async"] # 0
    /\ thr[lock["async"]] = jobThr[s]
    /\ \/ /\ job' = [job EXCEPT ![s] = "deadlocked"]
          /\ closed' = closed
       \/ /\ job' = [job EXCEPT ![s] = "none"]
          /\ closed' = closed \cup {s}
    /\ UNCHANGED <<pool, lock, kind, pc, held, conn, jobThr, handed, target, exitBy>>
    /\ PoolFrame

\* ------------------------------------------------------------ the store
\* The store forgets a session whose connection is dropped.
Close(s) ==
    /\ closed' = closed \cup {s}
    /\ subscribed' = [subscribed EXCEPT ![s] = {}]
    /\ inbox' = [inbox EXCEPT ![s] = <<>>]
    /\ ended' = [ended EXCEPT ![s] = FALSE]

\* PUBLISH: the store pushes the message to every session subscribed to the
\* channel at that moment and keeps nothing for later subscribers.
Deliver(ch, m) ==
    /\ nPublished' = nPublished + 1
    /\ inbox' = [s \in Sessions |->
                   IF ch \in subscribed[s]
                   THEN Append(inbox[s], [ch |-> ch, payload |-> m])
                   ELSE inbox[s]]
    /\ first' = [t \in Tasks |->
                   IF /\ pc[t] = "sw_wait" /\ ~timer[t]
                      /\ chan[t] = ch /\ first[t] = "none"
                   THEN m ELSE first[t]]

\* Messages the store may still accept.
MayPublish ==
    nPublished + Cardinality({u \in Tasks : op[u] = "publish"}) < MaxPublishes

\* `msg.get_payload::<String>()` succeeds on UTF-8 payloads.
get_payload_ok(m) == m.payload \in Payloads

\* -------------------------------------------------------------- publish
\* line 130: get_async_connection().await? — the pop of lines 82-88.
PublishPop(t) ==
    /\ IF pool["async"] # <<>>
       THEN /\ pool' = [pool EXCEPT !["async"] = pop_front(@)]
            /\ Tenure(Head(pool["async"]))
            /\ conn' = [conn EXCEPT ![t] = Head(pool["async"])]
            /\ used' = [used EXCEPT ![t] = Head(pool["async"])]
            /\ pc' = [pc EXCEPT ![t] = "pb_publish"]
       ELSE /\ pc' = [pc EXCEPT ![t] = "pb_connect"]
            /\ UNCHANGED <<pool, conn, used, handed, target, exitBy>>
    /\ UNCHANGED <<lock, kind, closed, held, job, jobThr>>

\* publish returns r to its caller.
PublishReturns(t, r) ==
    /\ pc' = [pc EXCEPT ![t] = "pb_done"]
    /\ res' = [res EXCEPT ![t] = r]
    /\ conn' = [conn EXCEPT ![t] = 0]

publish_call(t) ==
    /\ held[t] = NoHold /\ MayPublish
    /\ IF lock["async"] = 0
       THEN Enter(t, "async", "pb_lock", PublishPop(t))
       ELSE Enter(t, "async", "pb_lock", FALSE) /\ used' = used
    /\ op' = [op EXCEPT ![t] = "publish"]
    /\ UNCHANGED <<thr, res, chan, timer, resp, subscribed, inbox, ended,
                   nPublished, first, backlog>>
    /\ UNCHANGED trVars

publish_lock(t) ==
    /\ Acquire(t, "async", "pb_lock", PublishPop(t))
    /\ UNCHANGED <<thr, op, res, chan, timer, resp, subscribed, inbox,
                   ended, nPublished, first, backlog>>
    /\ UNCHANGED trVars

\* line 90 under line 130: the connection attempt answers; `?` returns the
\* error.
publish_connect(t) ==
    /\ pc[t] = "pb_connect" /\ CanRun(t)
    /\ \/ \E s \in Sessions :
            /\ Connected("async", s)
            /\ conn' = [conn EXCEPT ![t] = s]
            /\ used' = [used EXCEPT ![t] = s]
            /\ pc' = [pc EXCEPT ![t] = "pb_publish"]
            /\ res' = res
       \/ /\ PublishReturns(t, Err(ConnectFailed))
          /\ UNCHANGED <<kind, used>>
    /\ UNCHANGED <<pool, lock, closed, held, job, jobThr, handed, target, exitBy,
                   thr, op, chan, timer, resp, subscribed, inbox, ended,
                   nPublished, first, backlog>>
    /\ UNCHANGED trVars

\* line 131: conn.publish(channel, message).await? answers.  On Ok the task
\* runs on into return_async_connection (line 132); on Err `?` returns and
\* `conn` is dropped.
publish_publish(t) ==
    /\ pc[t] = "pb_publish" /\ CanRun(t)
    /\ \/ /\ \E ch \in Channels, m \in Payloads : Deliver(ch, m)
          /\ HandTo("async", conn[t])
          /\ IF lock["async"] = 0
             THEN /\ ReturnTo("async", conn[t])
                  /\ PublishReturns(t, Ok("unit"))
             ELSE /\ pc' = [pc EXCEPT ![t] = "pb_ret_lock"]
                  /\ UNCHANGED <<pool, closed, conn, res>>
          /\ UNCHANGED <<subscribed, ended>>
       \/ /\ Close(conn[t])
          /\ PublishReturns(t, Err(StoreError))
          /\ UNCHANGED <<pool, nPublished, first, handed, target>>
    /\ UNCHANGED <<lock, kind, held, job, jobThr, exitBy, thr, op, chan,
                   timer, resp, used, backlog>>
    /\ UNCHANGED trVars

\* lines 103-106 under line 132, then line 133's Ok(()).
publish_return_lock(t) ==
    /\ pc[t] = "pb_ret_lock" /\ lock["async"] = 0
    /\ ReturnTo("async", conn[t])
    /\ PublishReturns(t, Ok("unit"))
    /\ UNCHANGED <<lock, kind, held, job, jobThr, handed, target, exitBy, thr, op,
                   rvVars>>
    /\ UNCHANGED trVars

\* The caller of publish takes the result.
publish_done(t) ==
    /\ pc[t] = "pb_done"
    /\ pc' = [pc EXCEPT ![t] = "idle"]
    /\ op' = [op EXCEPT ![t] = "none"]
    /\ res' = [res EXCEPT ![t] = NoRes]
    /\ used' = [used EXCEPT ![t] = 0]
    /\ UNCHANGED <<pool, lock, kind, closed, held, conn, job, jobThr, handed,
                   target, exitBy, thr, chan, timer, resp, subscribed, inbox, ended,
                   nPublished, first, backlog>>
    /\ UNCHANGED trVars

\* Another client of the store publishes bytes that are not UTF-8.
foreign_publish ==
    /\ MayPublish
    /\ \E ch \in Channels : Deliver(ch, Binary)
    /\ UNCHANGED <<poolVars, thr, op, res, chan, timer, resp, subscribed,
                   ended, used, backlog>>
    /\ UNCHANGED trVars

\* Another client of the store, the party a call waits for, publishes a
\* response.
responder_publish ==
    /\ MayPublish
    /\ \E ch \in Channels, m \in Payloads : Deliver(ch, m)
    /\ UNCHANGED <<poolVars, thr, op, res, chan, timer, resp, subscribed,
                   ended, used, backlog>>
    /\ UNCHANGED trVars

\* ------------------------------------- subscribe_and_wait_for_response
\* line 141: get_pubsub_connection().await? — the pop of lines 110-116.
PubsubPop(t) ==
    /\ IF pool["pubsub"] # <<>>
       THEN /\ pool' = [pool EXCEPT !["pubsub"] = pop_front(@)]
            /\ Tenure(Head(pool["pubsub"]))
            /\ conn' = [conn EXCEPT ![t] = Head(pool["pubsub"])]
            /\ used' = [used EXCEPT ![t] = Head(pool["pubsub"])]
            /\ pc' = [pc EXCEPT ![t] = "sw_subscribe"]
       ELSE /\ pc' = [pc EXCEPT ![t] = "gp_connect"]
            /\ UNCHANGED <<pool, conn, used, handed, target, exitBy>>
    /\ UNCHANGED <<lock, kind, closed, held, job, jobThr>>

\* The call returns r to its caller.
SubscribeReturns(t, r) ==
    /\ pc' = [pc EXCEPT ![t] = "sw_done"]
    /\ res' = [res EXCEPT ![t] = r]
    /\ conn' = [conn EXCEPT ![t] = 0]
    /\ resp' = [resp EXCEPT ![t] = NoRes]

subscribe_and_wait_call(t) ==
    /\ held[t] = NoHold
    /\ \E ch \in Channels : chan' = [chan EXCEPT ![t] = ch]
    /\ Enter(t, "pubsub", "gp_lock", PubsubPop(t))
    /\ op' = [op EXCEPT ![t] = "subscribe"]
    /\ UNCHANGED <<thr, res, timer, resp, subscribed, inbox, ended,
                   nPublished, first, backlog>>
    /\ UNCHANGED trVars

\* line 118: get_async_pubsub().await answers; line 141's `?`.
subscribe_and_wait_connect(t) ==
    /\ pc[t] = "gp_connect" /\ CanRun(t)
    /\ \/ \E s \in Sessions :
            /\ Connected("pubsub", s)
            /\ conn' = [conn EXCEPT ![t] = s]
            /\ used' = [used EXCEPT ![t] = s]
            /\ pc' = [pc EXCEPT ![t] = "sw_subscribe"]
            /\ UNCHANGED <<res, resp>>
       \/ /\ SubscribeReturns(t, Err(ConnectFailed))
          /\ UNCHANGED <<kind, used>>
    /\ UNCHANGED <<pool, lock, closed, held, job, jobThr, handed, target, exitBy,
                   thr, op, chan, timer, subscribed, inbox, ended,
                   nPublished, first, backlog>>
    /\ UNCHANGED trVars

\* line 142: conn.subscribe(channel).await? answers.  On Ok the task runs
\* on into the timeout, whose first poll finds nothing and suspends; on Err
\* `?` returns and `conn` is dropped.
subscribe_and_wait_subscribe(t) ==
    /\ pc[t] = "sw_subscribe" /\ CanRun(t)
    /\ \/ /\ subscribed' = [subscribed EXCEPT ![conn[t]] = @ \cup {chan[t]}]
          /\ backlog' = [backlog EXCEPT ![t] =
                           IF inbox[conn[t]] # <<>>
                           THEN Head(inbox[conn[t]]).ch ELSE "none"]
          /\ pc' = [pc EXCEPT ![t] = "sw_wait"]
          /\ UNCHANGED <<closed, inbox, ended, conn, res, resp>>
       \/ /\ Close(conn[t])
          /\ SubscribeReturns(t, Err(StoreError))
          /\ backlog' = backlog
    /\ UNCHANGED <<pool, lock, kind, held, job, jobThr, handed, target, exitBy,
                   thr, op, chan, timer, nPublished, used, first>>
    /\ UNCHANGED trVars

\* The timer of tokio::time::timeout (line 145) fires.
timer_fires(t) ==
    /\ pc[t] = "sw_wait" /\ ~timer[t]
    /\ timer' = [timer EXCEPT ![t] = TRUE]
    /\ UNCHANGED <<poolVars, thr, op, res, chan, resp, subscribed, inbox,
                   ended, nPublished, used, first, backlog>>
    /\ UNCHANGED trVars

\* The store closes the connection of a session a call is waiting on.
stream_ends(t) ==
    /\ pc[t] = "sw_wait" /\ ~ended[conn[t]]
    /\ ended' = [ended EXCEPT ![conn[t]] = TRUE]
    /\ UNCHANGED <<poolVars, thr, op, res, chan, timer, resp, subscribed,
                   inbox, nPublished, used, first, backlog>>
    /\ UNCHANGED trVars

\* lines 145-158: the task is polled in timeout(): the stream is polled
\* first, the timer second.  Ok(Some(msg)): the payload is decoded (`?`
\* returns on a decoding error, dropping `conn`); Ok(None): the stream has
\* ended; Err(_): the timer has fired.  With a response the task runs on
\* through drop(pubsub_stream) into line 161's unsubscribe round trip.
subscribe_and_wait_next(t) ==
    /\ pc[t] = "sw_wait" /\ CanRun(t)
    /\ IF inbox[conn[t]] # <<>>
       THEN IF get_payload_ok(Head(inbox[conn[t]]))
            THEN /\ resp' = [resp EXCEPT ![t] = Ok(Head(inbox[conn[t]]).payload)]
                 /\ inbox' = [inbox EXCEPT ![conn[t]] = Tail(@)]
                 /\ pc' = [pc EXCEPT ![t] = "sw_unsubscribe"]
                 /\ UNCHANGED <<closed, subscribed, ended, conn, res>>
            ELSE /\ Close(conn[t])
                 /\ SubscribeReturns(t, Err(Decode))
       ELSE /\ ended[conn[t]] \/ timer[t]
            /\ resp' = [resp EXCEPT ![t] =
                          IF ended[conn[t]] THEN Err(NoMessage) ELSE Err(Timeout)]
            /\ pc' = [pc EXCEPT ![t] = "sw_unsubscribe"]
            /\ UNCHANGED <<closed, subscribed, inbox, ended, conn, res>>
    /\ UNCHANGED <<pool, lock, kind, held, job, jobThr, handed, target, exitBy,
                   thr, op, chan, timer, nPublished, used, first, backlog>>
    /\ UNCHANGED trVars

\* Lines 160-161 do not read the messages the store pushed to the session
\* and the call left unread.  What the client makes of them while the stream
\* is dropped and the unsubscribe reply is awaited is its own affair: it may
\* use up any number of the oldest ones; the rest stays on the connection.
Unread(q) == {SubSeq(q, i, Len(q)) : i \in 1..(Len(q) + 1)}

\* A call that returns its response also when the unsubscribe failed.
subscribe_and_wait_unsubscribeKeepsResponse(t) ==
    /\ pc[t] = "sw_unsubscribe" /\ CanRun(t)
    /\ \/ /\ HandTo("pubsub", conn[t])
          /\ IF HasRoom(pool["pubsub"])
             THEN /\ pool' = [pool EXCEPT !["pubsub"] = push_back(@, conn[t])]
                  /\ subscribed' = [subscribed EXCEPT ![conn[t]] = @ \ {chan[t]}]
                  /\ \E q \in Unread(inbox[conn[t]]) :
                        inbox' = [inbox EXCEPT ![conn[t]] = q]
                  /\ UNCHANGED <<closed, ended>>
             ELSE /\ Close(conn[t])
                  /\ pool' = pool
          /\ SubscribeReturns(t, resp[t])
       \/ /\ Close(conn[t])
          /\ SubscribeReturns(t, resp[t])
          /\ UNCHANGED <<pool, handed, target>>
    /\ UNCHANGED <<lock, kind, held, job, jobThr, exitBy, thr, op, chan,
                   timer, nPublished, used, first, backlog>>
    /\ UNCHANGED trVars

\* lines 161-164: conn.unsubscribe(channel).await? answers.  On Ok
\* return_pubsub_connection(conn) (lines 123-126) runs and `response` is
\* returned; on Err `?` returns the error and `conn` is dropped.
subscribe_and_wait_unsubscribe(t) ==
    /\ pc[t] = "sw_unsubscribe" /\ CanRun(t)
    /\ \/ /\ HandTo("pubsub", conn[t])
          /\ IF HasRoom(pool["pubsub"])
             THEN /\ pool' = [pool EXCEPT !["pubsub"] = push_back(@, conn[t])]
                  /\ subscribed' = [subscribed EXCEPT ![conn[t]] = @ \ {chan[t]}]
                  /\ \E q \in Unread(inbox[conn[t]]) :
                        inbox' = [inbox EXCEPT ![conn[t]] = q]
                  /\ UNCHANGED <<closed, ended>>
             ELSE /\ Close(conn[t])
                  /\ pool' = pool
          /\ SubscribeReturns(t, resp[t])
       \/ /\ Close(conn[t])
          /\ SubscribeReturns(t, Err(StoreError))
          /\ UNCHANGED <<pool, handed, target>>
    /\ UNCHANGED <<lock, kind, held, job, jobThr, exitBy, thr, op, chan,
                   timer, nPublished, used, first, backlog>>
    /\ UNCHANGED trVars

\* The caller of subscribe_and_wait_for_response takes the result.
subscribe_and_wait_done(t) ==
    /\ pc[t] = "sw_done"
    /\ pc' = [pc EXCEPT ![t] = "idle"]
    /\ op' = [op EXCEPT ![t] = "none"]
    /\ res' = [res EXCEPT ![t] = NoRes]
    /\ chan' = [chan EXCEPT ![t] = "none"]
    /\ timer' = [timer EXCEPT ![t] = FALSE]
    /\ used' = [used EXCEPT ![t] = 0]
    /\ first' = [first EXCEPT ![t] = "none"]
    /\ backlog' = [backlog EXCEPT ![t] = "none"]
    /\ UNCHANGED <<pool, lock, kind, closed, held, conn, job, jobThr, handed,
                   target, exitBy, thr, resp, subscribed, inbox, ended,
                   nPublished>>
    /\ UNCHANGED trVars

RvNext ==
    \/ \E t \in Tasks :
         \/ publish_call(t) \/ publish_connect(t) \/ publish_publish(t)
         \/ publish_done(t)
         \/ subscribe_and_wait_call(t) \/ subscribe_and_wait_connect(t)
         \/ subscribe_and_wait_subscribe(t) \/ subscribe_and_wait_next(t)
         \/ subscribe_and_wait_unsubscribe(t) \/ subscribe_and_wait_done(t)
         \/ timer_fires(t) \/ stream_ends(t)
    \/ foreign_publish

\* publish blocked in lock() by a get_async_conn that holds the Mutex.
RvBlockedNext ==
    \E t \in Tasks : publish_lock(t) \/ publish_return_lock(t)

\* ------------------------------------------------- the tracing sink
\* Events raised in one run.
MaxEvents == 2
\* Deepest chain of nested spans an event is raised under.
MaxDepth == 3
\* Last instant of the clock.
MaxClock == 2
\* flush() calls in one run.
MaxFlushes == 2

Levels == {"INFO"}
Messages == {"a"}

\* Option<String>
None == <<>>
Some(x) == <<x>>

\* The nesting of the instrumented functions, d spans deep: handle_request
\* calls apalis_job, the span whose events are meant to be kept, which calls
\* further steps.
Nesting(d) == [i \in 1..d |-> i = 2]

\* The active span chains of an event (ctx.event_scope): the root first; the
\* span at position i has Registry id i and carries, or not, the opt-in
\* marker.  <<>>: the event is raised outside every span.
Chains == {Nesting(d) : d \in 0..MaxDepth}

\* span.name()
SpanName(i) ==
    CASE i = 1 -> "handle_request"
      [] i = 2 -> "apalis_job"
      [] OTHER -> "step"

\* DateTime::to_rfc3339 of the instant n: the text carries the milliseconds
\* and the digits below them.
to_rfc3339(n) == [ms |-> n \div 2, sub |-> n % 2]
\* DateTime::parse_from_rfc3339(..).unwrap().timestamp_millis()
timestamp_millis(ts) == ts.ms
\* span_ref.id().into_u64().to_string()
id_to_string(i) == ToString(i)

\* A LogData whose trace_id is always the innermost span's own id.
LogDataOfOwnId(c, lvl, msg) ==
    IF c = <<>>
    THEN [timestamp |-> to_rfc3339(clock), level |-> lvl, message |-> msg,
          span_id |-> None, trace_id |-> "default_trace_id", span_name |-> None]
    ELSE [timestamp |-> to_rfc3339(clock), level |-> lvl, message |-> msg,
          span_id |-> Some(id_to_string(Len(c))),
          trace_id |-> id_to_string(Len(c)),
          span_name |-> Some(SpanName(Len(c)))]

\* lines 127-157: the LogData on_event builds for an event of level lvl and
\* message msg raised under chain c.  `scope.from_root().last()` is the
\* innermost span, `span_ref.parent()` the span that encloses it.
LogDataOf(c, lvl, msg) ==
    IF c = <<>>
    THEN [timestamp |-> to_rfc3339(clock), level |-> lvl, message |-> msg,
          span_id |-> None, trace_id |-> "default_trace_id", span_name |-> None]
    ELSE [timestamp |-> to_rfc3339(clock), level |-> lvl, message |-> msg,
          span_id |-> Some(id_to_string(Len(c))),
          trace_id |-> IF Len(c) > 1 THEN id_to_string(Len(c) - 1)
                                     ELSE id_to_string(Len(c)),
          span_name |-> Some(SpanName(Len(c)))]

\* serde_json::to_string(&log_data): the six fields in declaration order, a
\* None as null.
json_opt(o) == IF o = None THEN <<"null">> ELSE <<"str", o[1]>>
to_string(d) ==
    <<<<"str", d.timestamp>>, <<"str", d.level>>, <<"str", d.message>>,
      json_opt(d.span_id), <<"str", d.trace_id>>, json_opt(d.span_name)>>

\* A ZADD that keeps one member per score.
zaddByScore(z, m, sc) == {r \in z : r.score # sc} \cup {[member |-> m, score |-> sc]}

\* ZADD key score member on a sorted set: a member is stored once, with its
\* latest score.
zadd(z, m, sc) == {r \in z : r.member # m} \cup {[member |-> m, score |-> sc]}

\* Some span of chain c carries the opt-in marker.
OptedIn(c) == \E i \in DOMAIN c : c[i]

\* A log() that awaits the persistence of the earlier events before it
\* returns.
logAwaited(d, c) ==
    /\ \A e \in DOMAIN ptask : ptask[e].pc \in {"done", "panicked"}
    /\ ptask' = Append(ptask, [pc |-> "spawned", data |-> d, conn |-> 0,
                               opted |-> OptedIn(c), chain |-> c, rank |-> 0])

\* RedisLogger::log, lines 85-108: tokio::spawn of the persistence task.  The
\* task remembers the chain c its event was raised under and, once it has
\* written, the rank of its write among the writes to the store.
log(d, c) ==
    ptask' = Append(ptask, [pc |-> "spawned", data |-> d, conn |-> 0,
                            opted |-> OptedIn(c), chain |-> c, rank |-> 0])

\* RedisLogLayer::on_event, lines 123-160: builds the LogData and passes it
\* to log(), whatever the chain is.
on_event ==
    /\ Len(ptask) < MaxEvents
    /\ \E c \in Chains, lvl \in Levels, msg \in Messages :
          log(LogDataOf(c, lvl, msg), c)
    /\ UNCHANGED <<poolVars, thr, op, res, rvVars, clock, store, permit, flushing, flushes, atCall,
                   viewer>>

\* Time passes.
tick ==
    /\ clock < MaxClock
    /\ clock' = clock + 1
    /\ UNCHANGED <<poolVars, thr, op, res, rvVars, ptask, store, permit, flushing, flushes, atCall,
                   viewer>>

\* Notify::notify_one: wakes the waiter, whose flush() returns, or stores
\* one permit.
notify_one ==
    IF flushing
    THEN flushing' = FALSE /\ permit' = permit /\ flushes' = flushes + 1
         /\ atCall' = atCall
    ELSE permit' = TRUE /\ flushing' = flushing /\ flushes' = flushes
         /\ atCall' = atCall

\* A flush() that returns without waiting for a notification.
flushNoWait ==
    /\ ~flushing /\ flushes < MaxFlushes
    /\ flushes' = flushes + 1
    /\ atCall' = IF atCall = -1 THEN Len(ptask) ELSE atCall
    /\ UNCHANGED <<poolVars, thr, op, res, rvVars, clock, ptask, store, viewer,
                   permit, flushing>>

\* RedisLogger::flush, lines 110-112: notified() takes a stored permit or
\* waits for the next notify_one.
flush ==
    /\ ~flushing /\ flushes < MaxFlushes
    /\ IF permit
       THEN permit' = FALSE /\ flushing' = flushing /\ flushes' = flushes + 1
       ELSE flushing' = TRUE /\ permit' = permit /\ flushes' = flushes
    /\ atCall' = IF atCall = -1 THEN Len(ptask) ELSE atCall
    /\ UNCHANGED <<poolVars, thr, op, res, rvVars, clock, ptask, store, viewer>>

\* lines 89-92: the spawned task is polled and runs get_async_connection
\* (lines 82-88): the pop under the Mutex, else the connection attempt.
persist_poll(e) ==
    /\ e \in DOMAIN ptask
    /\ ptask[e].pc = "spawned" /\ lock["async"] = 0
    /\ IF pool["async"] # <<>>
       THEN /\ pool' = [pool EXCEPT !["async"] = pop_front(@)]
            /\ Tenure(Head(pool["async"]))
            /\ ptask' = [ptask EXCEPT ![e].pc = "zadd",
                                      ![e].conn = Head(pool["async"])]
       ELSE /\ ptask' = [ptask EXCEPT ![e].pc = "connect"]
            /\ UNCHANGED <<pool, handed, target, exitBy>>
    /\ UNCHANGED <<lock, kind, closed, pc, held, conn, job, jobThr, thr, op, res,
                   rvVars, clock, store, permit, flushing, flushes, atCall,
                   viewer>>

\* A persistence task that signals the notification when its checkout
\* failed.
persist_connectNotifies(e) ==
    /\ e \in DOMAIN ptask
    /\ ptask[e].pc = "connect"
    /\ \/ /\ \E s \in Sessions :
               /\ Connected("async", s)
               /\ ptask' = [ptask EXCEPT ![e].pc = "zadd", ![e].conn = s]
          /\ UNCHANGED <<permit, flushing, flushes, atCall>>
       \/ /\ ptask' = [ptask EXCEPT ![e].pc = "panicked"]
          /\ kind' = kind
          /\ notify_one
    /\ UNCHANGED <<pool, lock, closed, pc, held, conn, job, jobThr, handed, target,
                   exitBy, thr, op, res, rvVars, clock, store, viewer>>

\* line 90 answers; .expect (line 92) panics on Err and the task ends.
persist_connect(e) ==
    /\ e \in DOMAIN ptask
    /\ ptask[e].pc = "connect"
    /\ \/ \E s \in Sessions :
            /\ Connected("async", s)
            /\ ptask' = [ptask EXCEPT ![e].pc = "zadd", ![e].conn = s]
       \/ /\ ptask' = [ptask EXCEPT ![e].pc = "panicked"]
          /\ kind' = kind
    /\ UNCHANGED <<pool, lock, closed, pc, held, conn, job, jobThr, handed, target,
                   exitBy, thr, op, res, rvVars, clock, store, permit, flushing, flushes, atCall,
                   viewer>>

\* ZADDs the store has answered.
Writes == Cardinality({e \in DOMAIN ptask : ptask[e].rank > 0})

\* lines 105-106 once the Mutex is free: return_async_connection, notify_one.
PersistReturn(e) ==
    /\ ReturnTo("async", ptask[e].conn)
    /\ notify_one
    /\ ptask' = [ptask EXCEPT ![e].pc = "done", ![e].conn = 0,
                              ![e].rank = IF @ = 0 THEN Writes + 1 ELSE @]

\* A persistence task that signals the notification also when its ZADD
\* failed.
persist_zaddNotifies(e) ==
    /\ e \in DOMAIN ptask
    /\ ptask[e].pc = "zadd"
    /\ \/ /\ store' = zadd(store, to_string(ptask[e].data),
                           timestamp_millis(ptask[e].data.timestamp))
          /\ HandTo("async", ptask[e].conn)
          /\ IF lock["async"] = 0
             THEN PersistReturn(e)
             ELSE /\ ptask' = [ptask EXCEPT ![e].pc = "ret_lock",
                                            ![e].rank = Writes + 1]
                  /\ UNCHANGED <<pool, closed, permit, flushing, flushes, atCall>>
       \/ /\ closed' = closed \cup {ptask[e].conn}
          /\ ptask' = [ptask EXCEPT ![e].pc = "panicked", ![e].conn = 0]
          /\ notify_one
          /\ UNCHANGED <<pool, handed, target, store>>
    /\ UNCHANGED <<lock, kind, pc, held, conn, job, jobThr, exitBy, thr, op, res,
                   rvVars, clock, viewer>>

\* lines 94-106: the ZADD of the serialized record under the key
\* traces:{app_name}, scored by the timestamp's milliseconds, answers.  On Ok
\* the task runs on into return_async_connection and notify_one; on Err
\* .unwrap() (line 103) panics, the task ends and `con` is dropped.
persist_zadd(e) ==
    /\ e \in DOMAIN ptask
    /\ ptask[e].pc = "zadd"
    /\ \/ /\ store' = zadd(store, to_string(ptask[e].data),
                           timestamp_millis(ptask[e].data.timestamp))
          /\ HandTo("async", ptask[e].conn)
          /\ IF lock["async"] = 0
             THEN PersistReturn(e)
             ELSE /\ ptask' = [ptask EXCEPT ![e].pc = "ret_lock",
                                            ![e].rank = Writes + 1]
                  /\ UNCHANGED <<pool, closed, permit, flushing, flushes, atCall>>
       \/ /\ closed' = closed \cup {ptask[e].conn}
          /\ ptask' = [ptask EXCEPT ![e].pc = "panicked", ![e].conn = 0]
          /\ UNCHANGED <<pool, handed, target, store, permit, flushing, flushes,
                         atCall>>
    /\ UNCHANGED <<lock, kind, pc, held, conn, job, jobThr, exitBy, thr, op, res,
                   rvVars, clock, viewer>>

\* The persistence task was blocked in return_async_connection's lock().
persist_return_lock(e) ==
    /\ e \in DOMAIN ptask
    /\ ptask[e].pc = "ret_lock" /\ lock["async"] = 0
    /\ PersistReturn(e)
    /\ UNCHANGED <<lock, kind, pc, held, conn, job, jobThr, handed, target, exitBy,
                   thr, op, res, rvVars, clock, store, viewer>>

\* The sink without its flush().
SinkNext ==
    \/ on_event \/ tick
    \/ \E e \in 1..MaxEvents :
         persist_poll(e) \/ persist_connect(e) \/ persist_zadd(e)

TraceNext == SinkNext \/ flush

\* A persistence task blocked by a get_async_conn that holds the Mutex.
TraceBlockedNext ==
    \E e \in 1..MaxEvents : persist_return_lock(e)

\* ---------------------------------------------------------------------------
\* The log viewer (LogViewer, lines 208-285) and the other clients of the
\* store.

\* A member of the sorted set that is not the JSON of a LogData, written by
\* another client of the store.
Malformed == <<<<"junk">>>>

\* The scores the other client writes under: that of the last instant.
Scores == {timestamp_millis(to_rfc3339(MaxClock))}

\* Another client ZADDs a member under the key traces:{app_name}.
foreign_zadd ==
    /\ \E sc \in Scores : store' = zadd(store, Malformed, sc)
    /\ store' # store
    /\ UNCHANGED <<poolVars, thr, op, res, rvVars, clock, ptask, permit, flushing,
                   flushes, atCall, viewer>>

\* ZRANGEBYSCORE key -inf +inf: every member, by ascending score; the order
\* of members of equal score is the byte order of the members, which the
\* model does not fix.
zrangebyscoreDescending(z) ==
    {[i \in 1..Cardinality(z) |-> q[i].member] :
        q \in {f \in [1..Cardinality(z) -> z] :
                 \A i, j \in 1..Cardinality(z) :
                     i < j => f[i] # f[j] /\ f[i].score >= f[j].score}}
zrangebyscore(z) ==
    {[i \in 1..Cardinality(z) |-> q[i].member] :
        q \in {f \in [1..Cardinality(z) -> z] :
                 \A i, j \in 1..Cardinality(z) :
                     i < j => f[i] # f[j] /\ f[i].score <= f[j].score}}

\* serde_json::from_str::<LogData>: the inverse of to_string on the JSON of a
\* LogData, an error on anything else.
opt_jsonEmpty(j) == IF j = <<"null">> THEN Some("") ELSE Some(j[2])
opt_json(j) == IF j = <<"null">> THEN None ELSE Some(j[2])
from_str(m) ==
    IF Len(m) = 6
    THEN Ok([timestamp |-> m[1][2], level |-> m[2][2], message |-> m[3][2],
             span_id |-> opt_json(m[4]), trace_id |-> m[5][2],
             span_name |-> opt_json(m[6])])
    ELSE Err("from_str")

\* Option::unwrap_or
unwrap_or(o, dflt) == IF o = None THEN dflt ELSE o[1]

\* The line println! writes for a record (lines 232-239, 270-277).
println(d) ==
    <<d.timestamp, d.level, d.trace_id, unwrap_or(d.span_name, ""), d.message>>

\* The span names a caller asks view_logs_by_span_name for; None is
\* view_logs_by_app_name.
Selectors == {None, Some("apalis_job")}

\* `log_data.span_name.as_deref() == Some(span_name)` (line 269); every
\* record passes in view_logs_by_app_name.
Selected(d, sel) == sel = None \/ d.span_name = sel

\* The position of the first entry of logs that from_str rejects, Len + 1 if
\* there is none: the `for` loop (lines 230-240, 266-279) stops there.
FirstBad(logs) ==
    IF \E i \in DOMAIN logs : from_str(logs[i]).tag = "Err"
    THEN CHOOSE i \in DOMAIN logs :
            /\ from_str(logs[i]).tag = "Err"
            /\ \A j \in 1..(i - 1) : from_str(logs[j]).tag = "Ok"
    ELSE Len(logs) + 1

\* The lines that a loop over logs has printed when it stops: one for each
\* selected record before the first rejected entry.
RECURSIVE PrintedOf(_, _)
PrintedOf(recs, sel) ==
    IF recs = <<>> THEN <<>>
    ELSE IF Selected(Head(recs), sel)
         THEN <<println(Head(recs))>> \o PrintedOf(Tail(recs), sel)
         ELSE PrintedOf(Tail(recs), sel)
Loop(logs, sel) ==
    PrintedOf([i \in 1..(FirstBad(logs) - 1) |-> from_str(logs[i]).val], sel)

\* view_logs_by_app_name / view_logs_by_span_name is called and runs
\* get_async_connection (lines 218-222, 253-257): the pop under the Mutex,
\* else the connection attempt.
view_call ==
    /\ viewer.pc = "idle" /\ lock["async"] = 0
    /\ \E sel \in Selectors :
         IF pool["async"] # <<>>
         THEN /\ pool' = [pool EXCEPT !["async"] = pop_front(@)]
              /\ Tenure(Head(pool["async"]))
              /\ viewer' = [viewer EXCEPT !.pc = "range", !.sel = sel,
                                          !.conn = Head(pool["async"])]
         ELSE /\ viewer' = [viewer EXCEPT !.pc = "connect", !.sel = sel]
              /\ UNCHANGED <<pool, handed, target, exitBy>>
    /\ UNCHANGED <<lock, kind, closed, pc, held, conn, job, jobThr, thr, op, res,
                   rvVars, clock, ptask, store, permit, flushing, flushes, atCall>>

\* The connection attempt answers; on Err `?` returns the error.
view_connect ==
    /\ viewer.pc = "connect"
    /\ \/ \E s \in Sessions :
            /\ Connected("async", s)
            /\ viewer' = [viewer EXCEPT !.pc = "range", !.conn = s]
       \/ /\ viewer' = [viewer EXCEPT !.pc = "done", !.res = Err("connect")]
          /\ kind' = kind
    /\ UNCHANGED <<pool, lock, closed, pc, held, conn, job, jobThr, handed, target,
                   exitBy, thr, op, res, rvVars, clock, ptask, store, permit,
                   flushing, flushes, atCall>>

\* line 242 / 281 once the Mutex is free: return_async_connection, Ok(()),
\* after a loop that has printed o.
ViewReturn(o) ==
    /\ ReturnTo("async", viewer.conn)
    /\ viewer' = [viewer EXCEPT !.pc = "done", !.conn = 0, !.out = o,
                                !.res = Ok("unit")]

\* ZRANGEBYSCORE answers (lines 226-229, 261-264) and the loop runs.  An
\* error of the command, or of from_str inside the loop, is returned by `?`
\* and `con` is dropped; the lines printed before stay printed.
view_range ==
    /\ viewer.pc = "range"
    /\ \/ \E logs \in zrangebyscore(store) :
            IF FirstBad(logs) <= Len(logs)
            THEN /\ viewer' = [viewer EXCEPT !.pc = "done", !.conn = 0,
                                             !.out = Loop(logs, viewer.sel),
                                             !.res = Err("from_str")]
                 /\ closed' = closed \cup {viewer.conn}
                 /\ UNCHANGED <<pool, handed, target>>
            ELSE /\ HandTo("async", viewer.conn)
                 /\ IF lock["async"] = 0
                    THEN ViewReturn(Loop(logs, viewer.sel))
                    ELSE /\ viewer' = [viewer EXCEPT !.pc = "ret_lock",
                                                     !.out = Loop(logs, viewer.sel)]
                         /\ UNCHANGED <<pool, closed>>
       \/ /\ viewer' = [viewer EXCEPT !.pc = "done", !.conn = 0,
                                      !.res = Err("zrangebyscore")]
          /\ closed' = closed \cup {viewer.conn}
          /\ UNCHANGED <<pool, handed, target>>
    /\ UNCHANGED <<lock, kind, pc, held, conn, job, jobThr, exitBy, thr, op, res,
                   rvVars, clock, ptask, store, permit, flushing, flushes, atCall>>

\* The viewer was blocked in return_async_connection's lock().
view_return_lock ==
    /\ viewer.pc = "ret_lock" /\ lock["async"] = 0
    /\ ViewReturn(viewer.out)
    /\ UNCHANGED <<lock, kind, pc, held, conn, job, jobThr, handed, target, exitBy,
                   thr, op, res, rvVars, clock, ptask, store, permit, flushing,
                   flushes, atCall>>

\* The caller has the result of the call.
view_done ==
    /\ viewer.pc = "done"
    /\ viewer' = Idle
    /\ UNCHANGED <<poolVars, thr, op, res, rvVars, clock, ptask, store, permit,
                   flushing, flushes, atCall>>

ViewNext ==
    foreign_zadd \/ view_call \/ view_connect \/ view_range \/ view_done

\* A viewer blocked by a get_async_conn that holds the Mutex.
ViewBlockedNext == view_return_lock

\* ---------------------------------------------------------------- flushdb
\* RedisManager::flushdb, lines 167-174.  Line 168 asks the client for a
\* connection of its own; no pool and no Mutex is touched.
flushdb_call(t) ==
    /\ pc[t] = "idle" /\ held[t] = NoHold /\ CanRun(t)
    /\ pc' = [pc EXCEPT ![t] = "fd_connect"]
    /\ op' = [op EXCEPT ![t] = "flushdb"]
    /\ UNCHANGED <<pool, lock, kind, closed, held, conn, job, jobThr, handed,
                   target, exitBy, thr, res, rvVars, trVars>>

FlushdbReturns(t, r) ==
    /\ pc' = [pc EXCEPT ![t] = "fd_done"]
    /\ res' = [res EXCEPT ![t] = r]
    /\ conn' = [conn EXCEPT ![t] = 0]

\* line 168: get_multiplexed_async_connection().await? answers.
flushdb_connect(t) ==
    /\ pc[t] = "fd_connect" /\ CanRun(t)
    /\ \/ \E s \in Sessions :
            /\ Connected("async", s)
            /\ conn' = [conn EXCEPT ![t] = s]
            /\ pc' = [pc EXCEPT ![t] = "fd_cmd"]
            /\ res' = res
       \/ /\ FlushdbReturns(t, Err(ConnectFailed))
          /\ kind' = kind
    /\ UNCHANGED <<pool, lock, closed, held, job, jobThr, handed, target, exitBy,
                   thr, op, rvVars, trVars>>

\* A flushdb that puts its connection into the async pool when it is done.
flushdb_cmdPools(t) ==
    /\ pc[t] = "fd_cmd" /\ CanRun(t)
    /\ \/ /\ store' = {}
          /\ FlushdbReturns(t, Ok("unit"))
       \/ /\ store' = store
          /\ FlushdbReturns(t, Err(StoreError))
    /\ ReturnTo("async", conn[t])
    /\ UNCHANGED <<lock, kind, held, job, jobThr, handed, target, exitBy, thr,
                   op, rvVars, clock, ptask, permit, flushing, flushes, atCall,
                   viewer>>

\* lines 170-173: FLUSHDB answers.  On Ok every key of the store is gone,
\* drop(conn) closes the connection and Ok(()) is returned; on Err `?`
\* returns the error and `conn` is dropped as well.
flushdb_cmd(t) ==
    /\ pc[t] = "fd_cmd" /\ CanRun(t)
    /\ \/ /\ store' = {}
          /\ FlushdbReturns(t, Ok("unit"))
       \/ /\ store' = store
          /\ FlushdbReturns(t, Err(StoreError))
    /\ closed' = closed \cup {conn[t]}
    /\ UNCHANGED <<pool, lock, kind, held, job, jobThr, handed, target, exitBy,
                   thr, op, rvVars, clock, ptask, permit, flushing, flushes,
                   atCall, viewer>>

\* The caller of flushdb takes the result.
flushdb_done(t) ==
    /\ pc[t] = "fd_done"
    /\ pc' = [pc EXCEPT ![t] = "idle"]
    /\ op' = [op EXCEPT ![t] = "none"]
    /\ res' = [res EXCEPT ![t] = NoRes]
    /\ UNCHANGED <<pool, lock, kind, closed, held, conn, job, jobThr, handed,
                   target, exitBy, thr, rvVars, trVars>>

FlushdbNext ==
    \E t \in Tasks :
        flushdb_call(t) \/ flushdb_connect(t) \/ flushdb_cmd(t) \/ flushdb_done(t)

PoolNext ==
    \/ \E t \in Tasks :
         \/ get_sync_conn_call(t) \/ get_sync_conn_lock(t)
         \/ get_sync_conn_connect(t)
         \/ get_async_conn_call(t) \/ get_async_conn_lock(t)
         \/ get_async_conn_connect(t)
         \/ get_sync_connection_call(t) \/ get_sync_connection_lock(t)
         \/ get_sync_connection_connect(t)
         \/ get_async_connection_call(t) \/ get_async_connection_lock(t)
         \/ get_async_connection_connect(t)
         \/ return_sync_connection_call(t) \/ return_sync_connection_lock(t)
         \/ return_async_connection_call(t) \/ return_async_connection_lock(t)
         \/ drop_connection(t)
         \/ drop_SyncConnectionGuard(t) \/ drop_AsyncConnectionGuard(t)
         \/ lock_on_own_thread(t)
    \/ \E s \in Sessions :
         \/ spawned_return_poll(s) \/ spawned_return_lock(s)
         \/ spawned_lock_on_own_thread(s)

Next ==
    \/ PoolNext \/ RvNext \/ RvBlockedNext \/ TraceNext \/ TraceBlockedNext
    \/ ViewNext \/ ViewBlockedNext \/ FlushdbNext \/ responder_publish

\* Every operation.
Spec == Init /\ [][Next]_vars
\* Checkouts, returns and guards.
SpecPool == Init /\ [][PoolNext]_vars
\* get_async_conn, the drop of its guard and the task the drop spawns.
GuardNext ==
    \/ \E t \in Tasks :
         \/ get_async_conn_call(t) \/ get_async_conn_lock(t)
         \/ get_async_conn_connect(t)
         \/ drop_AsyncConnectionGuard(t)
         \/ lock_on_own_thread(t)
    \/ \E s \in Sessions :
         \/ spawned_return_poll(s) \/ spawned_return_lock(s)
         \/ spawned_lock_on_own_thread(s)

\* The scheduling of these operations: the store answers every connection
\* attempt, a thread blocked in lock() gets the Mutex if it is free often
\* enough, and the runtime polls every task whose thread is free often enough.
\* Calls and drops are the callers' choice and are not forced.
GuardFairness ==
    /\ \A t \in Tasks :
          SF_vars(get_async_conn_lock(t)) /\ SF_vars(get_async_conn_connect(t))
    /\ \A s \in Sessions :
          SF_vars(spawned_return_poll(s)) /\ SF_vars(spawned_return_lock(s))
\* The async guards under that scheduling.
SpecGuardFair == Init /\ [][GuardNext]_vars /\ GuardFairness
\* publish and subscribe_and_wait_for_response.
SpecRendezvous == Init /\ [][RvNext]_vars
\* The operations of subscribe_and_wait_for_response on the pub/sub pool, with
\* no message on its way.
WaitNext ==
    \E t \in Tasks :
        \/ subscribe_and_wait_call(t) \/ subscribe_and_wait_connect(t)
        \/ subscribe_and_wait_subscribe(t) \/ subscribe_and_wait_next(t)
        \/ subscribe_and_wait_unsubscribe(t) \/ subscribe_and_wait_done(t)
        \/ timer_fires(t)

\* Everything that takes a session out of one of the three pools or puts one
\* back.
SpecPools == Init /\ [][PoolNext \/ WaitNext]_vars
\* Calls of subscribe_and_wait_for_response answered by another client of the
\* store.
SpecAwait == Init /\ [][WaitNext \/ responder_publish]_vars
\* All of redis_manager.rs.
SpecManager == Init /\ [][PoolNext \/ RvNext \/ RvBlockedNext]_vars
\* The tracing sink of redis_tracing.rs.
SpecTrace == Init /\ [][TraceNext]_vars
\* The tracing sink next to callers of flushdb.
SpecFlushdb == Init /\ [][SinkNext \/ FlushdbNext]_vars
\* The sink with the viewer and the other clients of the store.
SpecView == Init /\ [][SinkNext \/ ViewNext]_vars

\* ================================================================ claims
\* Statements at which a task waits for the store: a session is being
\* created or a command is on its way.
NetworkPCs == {"gsc_connect", "gac_connect", "gsn_connect", "gan_connect",
               "pb_connect", "pb_publish", "gp_connect", "sw_subscribe",
               "sw_wait", "sw_unsubscribe"}

\* C1: in every reachable state each of the three pools holds at most
\* MAX_POOL_SIZE idle sessions.
C1_PoolBound == \A k \in Kinds : Len(pool[k]) <= MAX_POOL_SIZE

\* A return found its pool full and discarded the session.
C1_Witness ==
    \E s \in closed :
        /\ handed[s] = 1 /\ target[s] = kind[s]
        /\ Len(pool[kind[s]]) = MAX_POOL_SIZE
        /\ \A t \in Tasks : pc[t] # "panicked"

\* The places a session can be in.
InPool(s) == Cardinality({<<k, i>> \in Kinds \X (1..MaxSessions) :
                             i <= Len(pool[k]) /\ pool[k][i] = s})
HeldBy(s) == Cardinality({t \in Tasks : held[t].s = s})
InFlight(s) ==
    Cardinality({t \in Tasks : conn[t] = s})
    + Cardinality({e \in DOMAIN ptask : ptask[e].conn = s})
    + (IF viewer.conn = s THEN 1 ELSE 0)
    + (IF job[s] # "none" THEN 1 ELSE 0)
IsClosed(s) == IF s \in closed THEN 1 ELSE 0

\* C2: every created session is in exactly one place: idle in a pool (once),
\* held by one guard or caller, in flight inside an operation, or closed.
C2_OnePlace ==
    \A s \in Sessions :
        kind[s] # "none" => InPool(s) + HeldBy(s) + InFlight(s) + IsClosed(s) = 1

\* One session idles in a pool while a guard holds another one that it took
\* from a pool.
C2_Witness ==
    \E t \in Tasks, k \in Kinds :
        /\ held[t].g \in {"sguard", "aguard"}
        /\ pool[k] # <<>>
        /\ closed = {}

\* A guard of task t goes out of scope in this step.
GuardDropped(t) == held[t].g \in {"sguard", "aguard"} /\ held'[t] = NoHold

C4_LockOnlyForPop ==
    \A k \in Kinds : lock[k] # 0 => pc[lock[k]] \notin NetworkPCs

\* A task or a spawned return is inside lock() on a thread whose own suspended
\* task holds the Mutex: the holder is never polled again.
StuckTask(t) ==
    /\ pc[t] \in {"gac_lock", "gan_lock", "ra_lock"}
    /\ lock["async"] # 0
    /\ thr[lock["async"]] = thr[t]
StuckJob(s) ==
    /\ job[s] \in {"lock", "deadlocked"}
    /\ lock["async"] # 0
    /\ thr[lock["async"]] = jobThr[s]

\* C5: with every task on one scheduler thread, nothing is ever blocked for
\* good in lock() on the async pool.
C5_NoTaskBlockedForever ==
    (\A t \in Tasks : thr[t] = 1) /\ (\A s \in Sessions : jobThr[s] = 1)
        => /\ \A t \in Tasks : ~StuckTask(t)
           /\ \A s \in Sessions : ~StuckJob(s)

\* subscribe_and_wait_for_response of task t returns in this step, having
\* obtained a pub/sub session and subscribed it.
WaitReturns(t) == pc[t] \in {"sw_wait", "sw_unsubscribe"} /\ pc'[t] = "sw_done"

\* C6: whatever the outcome, when subscribe_and_wait_for_response returns,
\* the session it obtained is no longer subscribed to the channel and has
\* been handed to return_pubsub_connection.
C6_AlwaysReleased ==
    [][\A t \in Tasks :
         WaitReturns(t) =>
             /\ chan[t] \notin subscribed'[used[t]]
             /\ handed'[used[t]] = 1
             /\ target'[used[t]] = "pubsub"]_vars

\* C7: a call during which a message was published to its channel, after its
\* subscribe step and before its deadline, returns the payload of the first
\* such message as its success value.
C7_PublishedIsReturned ==
    \A t \in Tasks :
        pc[t] = "sw_done" /\ first[t] \in Payloads => res[t] = Ok(first[t])

\* C8: a call whose timer fired with no message published to its channel
\* since its subscribe step returns the Timeout error.
C8_QuietIsTimeout ==
    \A t \in Tasks :
        pc[t] = "sw_done" /\ timer[t] /\ first[t] = "none" /\ used[t] # 0
            => res[t] = Err(Timeout)

\* C9: a call never returns a payload when the message it read was published
\* to its channel before its subscribe step completed.
C9_NoReplay ==
    \A t \in Tasks :
        pc[t] = "sw_done" /\ res[t].tag = "Ok" => backlog[t] # chan[t]

\* C10: every event whose record was written to the store was raised under a
\* chain in which some span carries the opt-in marker.
C10_OnlyOptedInPersisted ==
    \A e \in DOMAIN ptask :
        to_string(ptask[e].data) \in {r.member : r \in store} => ptask[e].opted

\* C11: an event raised while no span is active is discarded: no persistence
\* task is spawned for it, so every task belongs to an event with a span.
C11_NoSpanDiscarded ==
    \A e \in DOMAIN ptask : ptask[e].chain # <<>>

\* C12: whatever the depth of the chain an event is raised under, the
\* record's trace_id is the id of the chain's root span (the span at
\* position 1, whose Registry id is 1), never that of an intermediate span.
C12_TraceIdIsRoot ==
    \A e \in DOMAIN ptask :
        ptask[e].chain # <<>> => ptask[e].data.trace_id = id_to_string(1)

\* The store's records that are the record of event e.
RecordsOf(e) == {r \in store : r.member = to_string(ptask[e].data)}

\* C13: an event raised under root -> child, the child carrying the opt-in
\* marker, spawns one persistence task and gets exactly one record once that
\* task has written; the record's trace_id is the root's id, its span_id and
\* span_name are the child's.
C13_TwoLevelRecord ==
    /\ [](\A e \in DOMAIN ptask :
            (ptask[e].chain = Nesting(2) /\ ptask[e].chain[2]) =>
                /\ ptask[e].data.trace_id = id_to_string(1)
                /\ ptask[e].data.span_id = Some(id_to_string(2))
                /\ ptask[e].data.span_name = Some(SpanName(2))
                /\ Cardinality(RecordsOf(e)) <= 1
                /\ ptask[e].rank > 0 => Cardinality(RecordsOf(e)) = 1)
    /\ [][Len(ptask') # Len(ptask) => Len(ptask') = Len(ptask) + 1]_vars

C13_Witness ==
    \E e \in DOMAIN ptask :
        /\ ptask[e].chain = Nesting(2) /\ ptask[e].chain[2]
        /\ ptask[e].pc = "done"
        /\ \E r \in store : r.member = to_string(ptask[e].data)

\* The persistence tasks that have written their record and handed their
\* session back (lines 98-105 passed).
Finished == {e \in DOMAIN ptask : ptask[e].pc = "done"}

\* C15: whenever flush() has returned, at least one persistence task has
\* already written its record and handed its session back; each return of
\* flush() is answered by a task of its own.  One flush() is no barrier: the
\* witness is a return of flush() that leaves an earlier event unwritten.
C15_FlushAfterOneWrite ==
    /\ flushes > 0 => Finished # {}
    /\ flushes <= Cardinality(Finished)

C15_Witness ==
    /\ flushes = 1 /\ Finished # {}
    /\ \E e \in 1..atCall : ptask[e].rank = 0 /\ ptask[e].pc = "zadd"

\* C16: after MaxEvents events were passed to persistence and the caller then
\* awaits flush() that many times in sequence, each of these calls returns
\* (none of them is left waiting once every task has finished and nothing
\* is left to signal it), and once the last has returned every record is
\* written.
C16_EveryFlushReturns ==
    atCall = MaxEvents =>
        /\ Finished = DOMAIN ptask => ~(flushing /\ flushes < MaxEvents)
        /\ flushes = MaxEvents => \A e \in DOMAIN ptask : ptask[e].rank > 0

\* C17: raising an event never blocks the emitter: on_event can be taken
\* whatever the persistence tasks, the pool and the store are doing, and it
\* returns having only spawned the new task, which has not run yet.
C17_EmitterNeverBlocks ==
    /\ [](Len(ptask) < MaxEvents => ENABLED on_event)
    /\ [][Len(ptask') > Len(ptask) =>
            /\ ptask'[Len(ptask')].pc = "spawned"
            /\ SubSeq(ptask', 1, Len(ptask)) = ptask
            /\ UNCHANGED <<poolVars, store, permit, flushing, flushes>>]_vars

C17_Witness ==
    /\ Len(ptask) = MaxEvents
    /\ ptask[1].pc = "zadd" /\ ptask[1].rank = 0
    /\ ptask[MaxEvents].pc = "spawned"

\* C18: a read is all-or-nothing: when an entry of the collection fails to
\* deserialize the call fails and the caller has observed none of the
\* records, not even those that precede the malformed entry.
C18_ReadAllOrNothing ==
    (viewer.pc = "done" /\ viewer.res.tag = "Err") => viewer.out = <<>>

\* C19: a full read that succeeds has printed the records in ascending
\* timestamp order, whatever the order their writes reached the store in;
\* records of the same millisecond may come in either order.
C19_ReadInTimestampOrder ==
    (viewer.pc = "done" /\ viewer.sel = None /\ viewer.res.tag = "Ok") =>
        \A i, j \in DOMAIN viewer.out :
            i < j => timestamp_millis(viewer.out[i][1])
                         <= timestamp_millis(viewer.out[j][1])

C19_Witness ==
    /\ viewer.pc = "done" /\ viewer.sel = None /\ viewer.res.tag = "Ok"
    /\ \E e1, e2 \in DOMAIN ptask :
          /\ ptask[e1].rank > ptask[e2].rank /\ ptask[e2].rank > 0
          /\ timestamp_millis(ptask[e1].data.timestamp)
                 < timestamp_millis(ptask[e2].data.timestamp)
          /\ viewer.out = <<println(ptask[e1].data), println(ptask[e2].data)>>

\* The run of test_tracing_and_logging: one event in handle_request, one in
\* apalis_job inside it, events outside every span if any, all persisted,
\* and nothing else in the collection.
TestRun ==
    /\ Cardinality({e \in DOMAIN ptask : ptask[e].chain = Nesting(1)}) = 1
    /\ Cardinality({e \in DOMAIN ptask : ptask[e].chain = Nesting(2)}) = 1
    /\ \A e \in DOMAIN ptask :
          /\ ptask[e].chain \in {<<>>, Nesting(1), Nesting(2)}
          /\ ptask[e].pc = "done"
    /\ {r.member : r \in store} = {to_string(ptask[e].data) : e \in DOMAIN ptask}

\* C14: after the test's run (handle_request without the opt-in marker around
\* apalis_job with it, one message each) the collection holds exactly one
\* record, a full read shows exactly one record and the read filtered by the
\* span name apalis_job shows exactly one record (the viewer has no query on
\* a field that is never set).
C14_TestRunStoresOne ==
    /\ [](TestRun => Cardinality(store) = 1)
    /\ [][(/\ TestRun
           /\ viewer.pc = "range" /\ viewer'.pc = "done"
           /\ viewer'.res.tag = "Ok") => Len(viewer'.out) = 1]_vars

\* The fields the filtered queries select on.
FilterFields == {"span_name", "service_name", "job_id"}

\* C20: a filtered query (by span name, service name or job id) shows exactly
\* the records of the full read whose field equals the requested value, in
\* the order of the full read; a record whose field is unset (printed as "")
\* never matches.  Every record read has each of the three fields to select
\* on.
C20_FilteredQueries ==
    /\ [][(/\ viewer.pc = "range" /\ viewer'.pc = "done"
           /\ viewer'.res.tag = "Ok" /\ viewer.sel # None) =>
             \E logs \in zrangebyscore(store) :
                LET full == [i \in DOMAIN logs |-> from_str(logs[i]).val]
                    hits == SelectSeq(full, LAMBDA d : d.span_name = viewer.sel)
                IN  viewer'.out = [i \in DOMAIN hits |-> println(hits[i])]]_vars
    /\ [](\A r \in store :
            from_str(r.member).tag = "Ok" =>
                FilterFields \subseteq DOMAIN from_str(r.member).val)

ConnectPCs == {"gsc_connect", "gac_connect", "gsn_connect", "gan_connect",
               "gp_connect"}

\* C22: when a checkout found its pool empty and the one connection attempt
\* fails (the step creates no session), the call is over: it has returned to
\* its caller, with the error where the result is kept, nothing is held, no
\* session is in the call's hands and no pool has changed.
C22_FailedCheckout ==
    [][\A t \in Tasks :
         (pc[t] \in ConnectPCs /\ pc'[t] # pc[t] /\ kind' = kind) =>
            /\ pc'[t] \in {"idle", "sw_done"}
            /\ pc'[t] = "sw_done" => res'[t] = Err(ConnectFailed)
            /\ held'[t] = NoHold /\ conn'[t] = 0
            /\ pool' = pool]_vars

C22_Witness ==
    \E t \in Tasks :
        /\ pc[t] = "sw_done" /\ res[t] = Err(ConnectFailed)
        /\ used[t] = 0 /\ pool["pubsub"] = <<>>

\* The sessions of kind k that exist, and those of them that are out of the
\* pool: held, in an operation or on their way back.
Created(k) == {s \in Sessions : kind[s] = k}
Out(k) == {s \in Created(k) : InPool(s) = 0 /\ s \notin closed}

\* Every return so far got through its lock(): no caller and no spawned
\* return has been stopped in lock() by a Mutex that a task of its own thread
\* holds (a session closed in that way keeps the mark of its guard's exit).
ReturnsRan ==
    /\ \A t \in Tasks : pc[t] \notin {"panicked", "deadlocked"}
    /\ \A s \in Sessions : job[s] # "deadlocked" /\ (s \in closed => exitBy[s] = "none")

\* C23: a return that runs appends the session to its pool iff the pool
\* holds fewer than MAX_POOL_SIZE sessions at that moment and closes it
\* otherwise: a pool grows only by one session at its back and only when it
\* has room, and a return that has the Mutex closes a session only when the
\* pool is full.  Hence, once every session of a kind is back and none was
\* closed except by a return, the pool holds min(created, MAX_POOL_SIZE)
\* sessions and the others are closed.
C23_ReturnIffRoom ==
    /\ [][\A k \in Kinds :
            /\ Len(pool'[k]) > Len(pool[k]) =>
                  /\ HasRoom(pool[k])
                  /\ \E s \in Created(k) : pool'[k] = Append(pool[k], s)
            /\ \A s \in Created(k) \cap (closed' \ closed) :
                  (handed'[s] >= 1 /\ target'[s] = k /\ lock[k] = 0)
                      => ~HasRoom(pool[k])]_vars
    /\ [](\A k \in Kinds :
            (/\ Out(k) = {} /\ ReturnsRan
             /\ \A s \in Created(k) \cap closed : handed[s] >= 1) =>
                /\ Len(pool[k]) = IF Cardinality(Created(k)) <= MAX_POOL_SIZE
                                  THEN Cardinality(Created(k))
                                  ELSE MAX_POOL_SIZE
                /\ Cardinality(Created(k) \cap closed)
                      = Cardinality(Created(k)) - Len(pool[k]))

C23_Witness ==
    \E k \in Kinds :
        /\ Cardinality(Created(k)) > MAX_POOL_SIZE /\ Out(k) = {} /\ ReturnsRan
        /\ Len(pool[k]) = MAX_POOL_SIZE
        /\ \A s \in Created(k) \cap closed : handed[s] >= 1

\* The pool whose checkout waits at the connect statement p.
ConnectPool(p) ==
    CASE p \in {"gsc_connect", "gsn_connect"} -> "sync"
      [] p \in {"gac_connect", "gan_connect"} -> "async"
      [] OTHER -> "pubsub"

C25_PublishHandsBack ==
    [][\A t \in Tasks :
         (pc[t] \in {"pb_publish", "pb_ret_lock"} /\ pc'[t] = "pb_done") =>
             /\ handed'[used[t]] = 1
             /\ target'[used[t]] = "async"
             /\ used[t] \notin closed' \/ ~HasRoom(pool["async"])]_vars

\* C26: the two outcomes without a payload have distinct error kinds: a call
\* that returned because its stream ended and a call that returned because
\* its timer fired can be told apart by the kind of their errors.
C26_DistinctErrorKinds ==
    \A t, u \in Tasks :
        (/\ pc[t] = "sw_done" /\ res[t].tag = "Err" /\ res[t].val = NoMessage
         /\ pc[u] = "sw_done" /\ res[u].tag = "Err" /\ res[u].val = Timeout)
            => res[t].val.kind # res[u].val.kind

\* C27: when a persistence task fails, at the session checkout or at the
\* store write, only that task ends: the step stores nothing, signals no
\* notification, returns no flush() and leaves every other task, the pools
\* and the callers as they are; the task has written nothing and takes no
\* further step, so the write is not retried.
C27_FailureEndsOnlyTheTask ==
    [][\A e \in DOMAIN ptask :
          /\ (ptask[e].pc # "panicked" /\ ptask'[e].pc = "panicked") =>
                /\ ptask[e].pc \in {"connect", "zadd"}
                /\ ptask[e].rank = 0 /\ ptask'[e].rank = 0
                /\ store' = store
                /\ permit' = permit /\ flushing' = flushing
                /\ flushes' = flushes
                /\ pool' = pool
                /\ pc' = pc /\ res' = res
                /\ DOMAIN ptask' = DOMAIN ptask
                /\ \A f \in DOMAIN ptask \ {e} : ptask'[f] = ptask[f]
          /\ ptask[e].pc = "panicked" => ptask'[e] = ptask[e]]_vars

\* C27 witness: the first event's task has failed and written nothing, no
\* notification is stored and no flush() has returned, while the emitter
\* has raised another event since.
C27_Witness ==
    /\ Len(ptask) = 2
    /\ ptask[1].pc = "panicked" /\ ptask[1].rank = 0
    /\ ptask[2].pc = "spawned"
    /\ store = {} /\ ~permit /\ flushes = 0

\* The statements of flushdb.
FlushdbPCs == {"fd_connect", "fd_cmd", "fd_done"}

\* C28: flushdb runs its command on a session of its own: the session it
\* gets is newly created and in no pool, it is closed and in no pool when
\* the call returns, and no step of flushdb changes the contents of any of
\* the three pools, on success and on failure; a successful flushdb leaves
\* the store empty, a failed one leaves it as it was.
C28_FlushdbOwnSession ==
    [][\A t \in Tasks :
          (pc'[t] # pc[t] /\ (pc[t] \in FlushdbPCs \/ pc'[t] \in FlushdbPCs)) =>
             /\ pool' = pool /\ lock' = lock
             /\ handed' = handed /\ target' = target
             /\ pc[t] = "fd_connect" /\ pc'[t] = "fd_cmd" =>
                   /\ kind[conn'[t]] = "none" /\ kind'[conn'[t]] = "async"
                   /\ InPool(conn'[t]) = 0 /\ conn'[t] \notin closed
                   /\ store' = store
             /\ pc[t] = "fd_connect" /\ pc'[t] = "fd_done" =>
                   /\ res'[t] = Err(ConnectFailed)
                   /\ kind' = kind /\ closed' = closed /\ store' = store
             /\ pc[t] = "fd_cmd" =>
                   /\ pc'[t] = "fd_done" /\ conn'[t] = 0
                   /\ closed' = closed \cup {conn[t]}
                   /\ res'[t].tag = "Ok" => store' = {}
                   /\ res'[t].tag = "Err" => store' = store]_vars

\* C28 witness: a flushdb has returned Ok on a store that held a record of
\* the sink; the store is empty and the session the sink had put back is
\* still the content of the async pool.
C28_Witness ==
    \E t \in Tasks :
        /\ pc[t] = "fd_done" /\ res[t] = Ok("unit")
        /\ store = {}
        /\ \E e \in DOMAIN ptask : ptask[e].pc = "done" /\ ptask[e].rank > 0
        /\ Len(pool["async"]) = MAX_POOL_SIZE
        /\ \E s \in closed : kind[s] = "async" /\ handed[s] = 0

\* C29: subscribe_and_wait_for_response on a channel never returns a payload
\* that was published to another channel, also on a session taken from the
\* pool with messages of an earlier call's channel left on it: the message a
\* successful call read was not one published to a channel other than its
\* own.
C29_OwnChannelOnly ==
    \A t \in Tasks :
        pc[t] = "sw_done" /\ res[t].tag = "Ok" => backlog[t] \in {"none", chan[t]}

\* The call of t returns to its caller in this step.
CallReturns(t) == pc[t] # "sw_done" /\ pc'[t] = "sw_done"

\* C30 as stated: a call returns a payload as success only if the
\* unsubscribe succeeded and its session is in the pub/sub pool afterwards;
\* when the unsubscribe fails with a payload received, the call returns the
\* unsubscribe error and the session is closed and not pooled.
C30_PayloadOnlyIfPooled ==
    [][\A t \in Tasks :
          CallReturns(t) =>
             /\ res'[t].tag = "Ok" =>
                   /\ pc[t] = "sw_unsubscribe" /\ res'[t] = resp[t]
                   /\ chan[t] \notin subscribed'[used[t]]
                   /\ \E i \in DOMAIN pool'["pubsub"] :
                         pool'["pubsub"][i] = used[t]
             /\ (pc[t] = "sw_unsubscribe" /\ resp[t].tag = "Ok"
                 /\ res'[t] # resp[t]) =>
                   /\ res'[t] = Err(StoreError)
                   /\ used[t] \in closed' /\ pool' = pool]_vars

\* C30, amended: a call returns a payload as success only if the unsubscribe
\* succeeded and its session was handed to return_pubsub_connection, which
\* puts it into the pub/sub pool if the pool has room and closes it
\* otherwise; when the unsubscribe fails with a payload received, the call
\* returns the unsubscribe error instead of the payload and the session is
\* closed without being handed to the return path.
C30_PayloadOnlyIfHandedBack ==
    [][\A t \in Tasks :
          CallReturns(t) =>
             /\ res'[t].tag = "Ok" =>
                   /\ pc[t] = "sw_unsubscribe" /\ res'[t] = resp[t]
                   /\ chan[t] \notin subscribed'[used[t]]
                   /\ handed'[used[t]] = 1 /\ target'[used[t]] = "pubsub"
                   /\ IF HasRoom(pool["pubsub"])
                      THEN /\ pool' = [pool EXCEPT !["pubsub"] =
                                                      Append(@, used[t])]
                           /\ closed' = closed
                      ELSE /\ pool' = pool
                           /\ closed' = closed \cup {used[t]}
             /\ (pc[t] = "sw_unsubscribe" /\ resp[t].tag = "Ok"
                 /\ res'[t] # resp[t]) =>
                   /\ res'[t] = Err(StoreError)
                   /\ handed'[used[t]] = 0
                   /\ closed' = closed \cup {used[t]} /\ pool' = pool]_vars

\* C30 witness: a call during which a payload was published to its channel
\* before any timer fired has returned the store's error; its session is
\* closed, was never handed to the return path and is in no pool.
C30_Witness ==
    \E t \in Tasks :
        /\ pc[t] = "sw_done" /\ res[t] = Err(StoreError)
        /\ first[t] \in Payloads /\ ~timer[t]
        /\ used[t] \in closed /\ handed[used[t]] = 0
        /\ InPool(used[t]) = 0

\* The serialized records whose ZADD the store has answered with Ok.
Written == {to_string(ptask[e].data) : e \in {f \in DOMAIN ptask : ptask[f].rank > 0}}

\* C33: the stored collection is a set of serialized records: its members
\* are the distinct serialized records successfully written, one entry
\* each, so the number of entries equals the number of distinct records
\* written and is at most the number of events persisted.
C33_SetOfRecords ==
    /\ {r.member : r \in store} = Written
    /\ Cardinality(store) = Cardinality(Written)
    /\ Cardinality(store) <= Writes

\* C33 witness: two events whose records are equal in every field have
\* both been persisted and the collection holds one entry.
C33_Witness ==
    /\ Len(ptask) = 2
    /\ ptask[1].pc = "done" /\ ptask[2].pc = "done"
    /\ ptask[1].data = ptask[2].data
    /\ Writes = 2
    /\ Cardinality(store) = 1

\* C31: flush() returns only after some persistence task has run to
\* completion: a return of flush() finds a finished task, and a pending
\* flush() stops waiting only in a step in which a task finishes (there is
\* no timeout and no failure notification).  So a flush() pending while no
\* event is ever passed to persistence, or while every persistence task has
\* failed before signalling, never returns.
C31_FlushNeedsFinishedTask ==
    /\ [][/\ flushes' > flushes => Finished' # {}
          /\ (flushing /\ ~flushing') =>
                /\ Cardinality(Finished') = Cardinality(Finished) + 1
                /\ flushes' = flushes + 1]_vars
    /\ []((flushing /\ [](\A e \in DOMAIN ptask : ptask[e].pc = "panicked"))
             => []flushing)

\* C31 witness: flush() is pending, every event has been passed to
\* persistence, every task has failed, nothing was stored and no
\* notification is left.
C31_Witness ==
    /\ flushing /\ flushes = 0 /\ ~permit
    /\ Len(ptask) = MaxEvents
    /\ \A e \in DOMAIN ptask : ptask[e].pc = "panicked"
    /\ store = {}

\* C32: dropping an AsyncConnectionGuard hands its session to a spawned
\* task; under fair scheduling that task eventually runs
\* return_async_connection to its end, after which the session is in the
\* async pool or, the pool being full, discarded.
C32_DroppedGuardIsReturned ==
    \A s \in Sessions :
        (job[s] = "spawned") ~> (job[s] = "none" /\ exitBy[s] = "none")

====
